---- MODULE Spec2Model ----
(***************************************************************************)
(* Personal Manager: the line-mode front end (personal_manager/cli.py) and *)
(* the interactive front end (personal_manager/tui.py).                    *)
(*                                                                         *)
(* Text is a TLA+ string; a captured binary stream is a sequence of byte   *)
(* values; a command request is a sequence of strings (argv).              *)
(***************************************************************************)
EXTENDS Integers, Sequences, FiniteSets, TLC

VARIABLES
    mode,          \* "boot", then the front end cli.main ended up in: "line" or
                   \* "tui", or "exit" when importing it ended the program
    pc,            \* control point of the handler that is running
    tty,           \* sys.stdout is a terminal (its text layer is line-buffered)
    args,          \* line mode: the parsed arguments (argparse Namespace)
    shell_cmd,     \* line mode: execute_shell_command's local shell_cmd
    exitCode,      \* line mode: the value run returned (read when pc = "done")
    sysout,        \* sys.stdout: w, what reached the stream, in order, and p, the
                   \* text still held by its text layer
    syserr,        \* sys.stderr, likewise
    requests,      \* the argv lists the current action handed to subprocess.run
    child,         \* what the last child process (or the attempt to start it) did
    progMissing,   \* the program the user asked for (first token) is not installed
    shellVisible,  \* tui: #shell-container does not carry the class "hidden"
    region,        \* tui: the content of #output-display
    cur,           \* tui: the locals of the command handler in flight
    inFlight,      \* tui: command handlers that have started and not yet ended
    pending,       \* tui: user events received and not yet dispatched
    last,          \* the action handled most recently
    produced       \* tui: the content the most recent content-producing action made

vars == <<mode, pc, tty, args, shell_cmd, exitCode, sysout, syserr, requests, child,
          progMissing, shellVisible, region, cur, inFlight, pending, last, produced>>

lineVars == <<tty, args, shell_cmd, exitCode, sysout, syserr>>
tuiVars == <<shellVisible, region, cur, inFlight, pending, produced>>

---------------------------------------------------------------------------
(* Bounds *)

\* longest stream (stdout, stderr) a child writes, in bytes
MaxLen == 1

\* most user events that wait in the interactive event queue
MaxPending == 1

---------------------------------------------------------------------------
(* Bytes and text *)

\* 'A', carriage return, and a byte that is not valid UTF-8
Bytes == {65, 13, 255}

ByteStrings == UNION {[1..k -> Bytes] : k \in 0..MaxLen}

ExitCodes == {0, 1, 2}

CharOf(b) == CASE b = 65 -> "A"
               [] b = 10 -> "\n"
               [] b = 13 -> "\r"
               [] OTHER -> "?"

\* bytes.decode(encoding, "strict") succeeds
Decodable(bs) == \A i \in 1..Len(bs) : bs[i] < 128

\* subprocess text mode: decode, then "\r\n" -> "\n" and "\r" -> "\n"
RECURSIVE TranslateNewlines(_)
TranslateNewlines(bs) ==
    IF bs = <<>> THEN ""
    ELSE IF Head(bs) = 13
         THEN "\n" \o TranslateNewlines(
                  IF Len(bs) > 1 /\ bs[2] = 10 THEN Tail(Tail(bs)) ELSE Tail(bs))
         ELSE CharOf(Head(bs)) \o TranslateNewlines(Tail(bs))

\* sep.join(parts)
RECURSIVE Join(_, _)
Join(sep, parts) ==
    IF parts = <<>> THEN ""
    ELSE IF Len(parts) = 1 THEN parts[1]
    ELSE parts[1] \o sep \o Join(sep, Tail(parts))

\* str.strip() on a sequence of characters
RECURSIVE LStrip(_)
LStrip(cs) == IF cs # <<>> /\ Head(cs) = " " THEN LStrip(Tail(cs)) ELSE cs

RECURSIVE RStrip(_)
RStrip(cs) ==
    IF cs # <<>> /\ cs[Len(cs)] = " " THEN RStrip(SubSeq(cs, 1, Len(cs) - 1)) ELSE cs

Strip(cs) == RStrip(LStrip(cs))

\* the characters of the first whitespace-free word of cs (cs starts with none)
RECURSIVE FirstWord(_)
FirstWord(cs) ==
    IF cs = <<>> \/ Head(cs) = " " THEN <<>> ELSE <<Head(cs)>> \o FirstWord(Tail(cs))

\* str.split(): the words between runs of whitespace, as strings
RECURSIVE Split(_)
Split(cs) ==
    LET s == LStrip(cs)
        w == FirstWord(s)
    IN IF s = <<>> THEN <<>>
       ELSE <<Join("", w)>> \o Split(SubSeq(s, Len(w) + 1, Len(s)))

---------------------------------------------------------------------------
(* The child process and subprocess.run *)

NoChild == [kind |-> "none", code |-> 0, out |-> <<>>, err |-> <<>>, msg |-> ""]

Exited(code, out, err) ==
    [kind |-> "exited", code |-> code, out |-> out, err |-> err, msg |-> ""]

\* the program of the request does not exist: exec fails with ENOENT
Missing == [kind |-> "notfound", code |-> 0, out |-> <<>>, err |-> <<>>, msg |-> ""]

\* any other failure to launch program prog, e.g. EACCES; msg is str(e)
OsError(prog) ==
    [kind |-> "oserror", code |-> 0, out |-> <<>>, err |-> <<>>,
     msg |-> "[Errno 13] Permission denied: '" \o prog \o "'"]

\* SIGINT reaches the program while it waits for the child: subprocess.run
\* raises KeyboardInterrupt
Interrupted == [kind |-> "interrupt", code |-> 0, out |-> <<>>, err |-> <<>>, msg |-> ""]

\* what a child started directly from argv can do
DirectOutcomes(prog) ==
    {Exited(c, o, e) : c \in ExitCodes, o \in ByteStrings, e \in ByteStrings}
        \cup {Missing, OsError(prog), Interrupted}

\* the sample programs the shell provides itself (a builtin needs no executable)
ShellBuiltins == {"echo"}

\* what `<shell> -c <command>` can do, prog being the command's first word:
\* when prog is not installed and is no builtin of the shell, the shell itself
\* reports it on stderr and exits 127; a builtin runs whether or not an
\* executable of that name is installed
ShellOutcomes(missing, prog) ==
    IF missing /\ prog \notin ShellBuiltins
    THEN {Exited(127, <<>>, e) : e \in ByteStrings \ {<<>>}}
    ELSE {Exited(c, o, e) : c \in ExitCodes, o \in ByteStrings, e \in ByteStrings}

---------------------------------------------------------------------------
(* Line mode: PersonalManager (cli.py) *)

Text(t) == [bytes |-> <<>>, text |-> t]
Raw(bs) == [bytes |-> bs, text |-> ""]

\* a stream nothing was written to
NoOutput == [w |-> <<>>, p |-> ""]

\* text t reaches the stream (text that follows text is one run of text)
AppendText(w, t) ==
    IF w # <<>> /\ w[Len(w)].bytes = <<>>
    THEN [w EXCEPT ![Len(w)] = Text(w[Len(w)].text \o t)]
    ELSE Append(w, Text(t))

\* stream.flush(): the text layer hands on what it holds
Flush(o) == [w |-> IF o.p # "" THEN AppendText(o.w, o.p) ELSE o.w, p |-> ""]

\* stream.write(t) for a text t that contains a line break: a line-buffered
\* text layer (lb) flushes, any other keeps the text
WriteText(o, lb, t) ==
    IF lb THEN Flush([w |-> o.w, p |-> o.p \o t]) ELSE [w |-> o.w, p |-> o.p \o t]

\* print(t, file=stream)
WriteLine(o, lb, t) == WriteText(o, lb, t \o "\n")

\* WriteThrough through a decoding text layer
WriteThroughText(o, data) ==
    IF data # <<>> THEN Flush([w |-> o.w, p |-> o.p \o TranslateNewlines(data)]) ELSE o

\* `if data: stream.buffer.write(data); stream.flush()`: the bytes go past the
\* text layer, which is flushed after them
WriteThrough(o, data) ==
    IF data # <<>> THEN Flush([w |-> Append(o.w, Raw(data)), p |-> o.p]) ELSE o

\* sys.stderr is line-buffered whatever it is connected to
ErrLineBuffered == TRUE

\* the token lists `pm shell <words...>` is tried with (nargs="+")
ShellWords == {<<"ls">>, <<"ls", "-l">>, <<"echo", "a", "b">>}

NoArgs == [command |-> "none", cmd |-> <<>>, task_action |-> "none", time_action |-> "none"]

\* what parse_args can return
ParsedArgs ==
    {NoArgs}
      \cup {[NoArgs EXCEPT !.command = "shell", !.cmd = w] : w \in ShellWords}
      \cup {[NoArgs EXCEPT !.command = "task", !.task_action = a] :
                a \in {"list", "add", "none"}}
      \cup {[NoArgs EXCEPT !.command = "time", !.time_action = a] :
                a \in {"start", "stop", "summary", "none"}}

Exec(cmd) == [kind |-> "exec", cmd |-> cmd, text |-> ""]
Say(text) == [kind |-> "print", cmd |-> <<>>, text |-> text]

\* handle_task_command with "add" wired to the backend
handle_task_command_add_runs(a) ==
    IF a.task_action = "list" THEN Exec(<<"task", "list">>)
    ELSE IF a.task_action = "add" THEN Exec(<<"task", "add">>)
         ELSE Say("Unknown task action")

handle_task_command(a) ==
    IF a.task_action = "list" THEN Exec(<<"task", "list">>)
    ELSE IF a.task_action = "add"
         THEN Say("Task add functionality - integrate with taskwarrior")
         ELSE Say("Unknown task action")

handle_time_command(a) ==
    IF a.time_action = "start"
    THEN Say("Time start functionality - integrate with timewarrior")
    ELSE IF a.time_action = "stop"
         THEN Say("Time stop functionality - integrate with timewarrior")
         ELSE IF a.time_action = "summary" THEN Exec(<<"timew", "summary">>)
              ELSE Say("Unknown time action")

\* the branch of run's dispatch that is taken
Route(a) ==
    IF a.command = "shell" THEN Exec(a.cmd)
    ELSE IF a.command = "task" THEN handle_task_command(a)
    ELSE handle_time_command(a)

\* the value run returns after execute_shell_command returned `value`
RunResult(a, value) == IF a.command = "shell" THEN value ELSE 0

\* `full_cmd = [shell_cmd, "-c", " ".join(cmd)]`
FullCmd(sh, cmd) == <<sh, "-c", Join(" ", cmd)>>

\* the exceptions run's `except KeyboardInterrupt` and `except Exception` catch
RunCatches(kind) == kind \in {"interrupt", "oserror"}

\* the exit code run's except clauses return
ExceptCode(kind) == IF kind = "interrupt" THEN 130 ELSE 1

\* an exception that execute_shell_command does not catch arrives in run;
\* main's sys.exit ends the program with what run returned
RunExcept(c) ==
    IF RunCatches(c.kind)
    THEN /\ pc' = "done"
         /\ exitCode' = ExceptCode(c.kind)
         /\ IF c.kind = "interrupt"
            THEN /\ sysout' = Flush(WriteLine(sysout, tty, "\nOperation cancelled by user"))
                 /\ syserr' = syserr
            ELSE /\ syserr' = WriteLine(syserr, ErrLineBuffered, "Error: " \o c.msg)
                 /\ sysout' = Flush(sysout)
    ELSE /\ pc' = "crashed"
         /\ UNCHANGED <<exitCode, sysout, syserr>>

\* `except FileNotFoundError` of execute_shell_command
NotFoundReturn ==
    /\ syserr' = WriteLine(syserr, ErrLineBuffered,
                           "Command not found: " \o Route(args).cmd[1])
    /\ sysout' = Flush(sysout)
    /\ exitCode' = RunResult(args, 1)
    /\ pc' = "done"

\* print_help(): parser.format_help()
Usage ==
    "usage: pm [-h] {shell,task,time} ...\n"
      \o "\n"
      \o "Personal Manager - CLI task and project organizer\n"
      \o "\n"
      \o "positional arguments:\n"
      \o "  {shell,task,time}  Available commands\n"
      \o "    shell            Execute shell commands\n"
      \o "    task             Task management\n"
      \o "    time             Time tracking\n"
      \o "\n"
      \o "options:\n"
      \o "  -h, --help         show this help message and exit\n"

\* str(e) of the ImportError main can catch
ImportErrors ==
    {"attempted relative import with no known parent package",
     "No module named 'personal_manager.tui'"}

\* main: `from .tui import main as tui_main` and what follows from it
main ==
    /\ mode = "boot" /\ pc = "main"
    /\ \/ \* the import works: tui_main() starts the interactive front end
          /\ mode' = "tui" /\ pc' = "idle"
          /\ UNCHANGED <<tty, args, sysout, exitCode>>
       \/ \* tui.py cannot import textual: it prints and calls sys.exit(1)
          /\ mode' = "exit" /\ pc' = "done"
          /\ tty' \in BOOLEAN
          /\ sysout' = Flush(WriteLine(sysout, tty',
                 "Error: textual package not found. Please install it with: pip install textual"))
          /\ exitCode' = 1
          /\ args' = args
       \/ \* ImportError: the two notices, then PersonalManager().run()
          /\ mode' = "line" /\ pc' = "start"
          /\ tty' \in BOOLEAN
          /\ args' \in ParsedArgs
          /\ \E e \in ImportErrors :
               sysout' = WriteLine(WriteLine(sysout, tty', "Error importing TUI: " \o e),
                                   tty', "Falling back to CLI mode...")
          /\ exitCode' = exitCode
    /\ UNCHANGED <<shell_cmd, syserr, requests, child, progMissing, last>>
    /\ UNCHANGED tuiVars

\* run, up to the first child process: dispatch on the parsed arguments, and
\* the branches that finish without running anything, after which main's
\* sys.exit ends the program. (Arguments parse_args rejects end the program
\* before run's try block and are not in ParsedArgs.)
run ==
    /\ mode = "line" /\ pc = "start"
    /\ last' = [kind |-> args.command,
                action |-> IF args.command = "none" THEN "help" ELSE Route(args).kind]
    /\ IF args.command = "none"
       THEN /\ sysout' = Flush(WriteText(sysout, tty, Usage))
            /\ exitCode' = 0
            /\ pc' = "done"
       ELSE IF Route(args).kind = "print"
            THEN /\ sysout' = Flush(WriteLine(sysout, tty, Route(args).text))
                 /\ exitCode' = 0
                 /\ pc' = "done"
            ELSE /\ pc' = "probe"
                 /\ UNCHANGED <<sysout, exitCode>>
    /\ UNCHANGED <<mode, tty, args, shell_cmd, syserr, requests, child, progMissing>>
    /\ UNCHANGED tuiVars

\* what `which fish` can do
ProbeOutcomes ==
    {Exited(0, <<65>>, <<>>), Exited(1, <<>>, <<>>), Missing, OsError("which"),
     Interrupted}

\* execute_shell_command: `fish_check = subprocess.run(["which", "fish"], ...)`
probe_shell ==
    /\ mode = "line" /\ pc = "probe"
    /\ \E c \in ProbeOutcomes :
         /\ requests' = Append(requests, <<"which", "fish">>)
         /\ child' = c
         /\ IF c.kind = "exited"
            THEN /\ shell_cmd' = IF c.code = 0 THEN "fish" ELSE "bash"
                 /\ pc' = "exec"
                 /\ UNCHANGED <<sysout, syserr, exitCode>>
            ELSE /\ shell_cmd' = shell_cmd
                 /\ IF c.kind = "notfound" THEN NotFoundReturn ELSE RunExcept(c)
    /\ UNCHANGED <<mode, tty, args, progMissing, last>>
    /\ UNCHANGED tuiVars

\* execute_shell_command: `subprocess.run(full_cmd, check=True, text=False, ...)`
\* and everything after it, back to run's return and main's sys.exit
run_child ==
    /\ mode = "line" /\ pc = "exec"
    /\ \E missing \in BOOLEAN :
       \E c \in ShellOutcomes(missing, Route(args).cmd[1]) \cup {Missing, OsError(shell_cmd), Interrupted} :
         /\ requests' = Append(requests, FullCmd(shell_cmd, Route(args).cmd))
         /\ child' = c
         /\ progMissing' = (missing /\ c.kind = "exited")
         /\ IF c.kind = "exited"
            THEN /\ sysout' = Flush(WriteThrough(sysout, c.out))
                 /\ syserr' = WriteThrough(syserr, c.err)
                 /\ exitCode' = RunResult(args, c.code)
                 /\ pc' = "done"
            ELSE IF c.kind = "notfound" THEN NotFoundReturn ELSE RunExcept(c)
    /\ UNCHANGED <<mode, tty, args, shell_cmd, last>>
    /\ UNCHANGED tuiVars

---------------------------------------------------------------------------
(* Interactive mode: PersonalManagerTUI (tui.py) *)

\* what the user may have typed into #shell-input, character by character
ShellInputs ==
    { <<>>, <<" ">>, <<"l", "s">>, <<" ", "l", "s", " ">>,
      <<"l", "s", " ", " ", "x">> }

Buttons ==
    {"shell-btn", "execute-btn", "task-list-btn", "add-task-btn",
     "time-summary-btn", "start-time-btn", "stop-time-btn"}

NoCur == [site |-> "none", command |-> "", cmd_parts |-> <<>>]

\* an output widget that appends (a log) instead of replacing
UpdateAppend(old, content) == old \o content

\* Static.update(content): the widget shows `content`
Update(old, content) == content

\* index of the first byte of bs that does not decode
RECURSIVE FirstBad(_, _)
FirstBad(bs, i) == IF bs[i] >= 128 THEN i ELSE FirstBad(bs, i + 1)

\* str(UnicodeDecodeError) for the stream bs
DecodeError(bs) ==
    "'utf-8' codec can't decode byte 0xff in position "
        \o ToString(FirstBad(bs, 1) - 1) \o ": invalid start byte"

\* subprocess.run(cmd_parts, check=True, text=True, capture_output=True):
\* the exception it raises ("none": it returns) and the decoded streams
TextRun(c) ==
    IF c.kind = "notfound"
    THEN [exc |-> "FileNotFoundError", code |-> 0, out |-> "", err |-> "", msg |-> ""]
    ELSE IF c.kind = "interrupt"
    THEN [exc |-> "KeyboardInterrupt", code |-> 0, out |-> "", err |-> "", msg |-> ""]
    ELSE IF c.kind # "exited"
    THEN [exc |-> "Exception", code |-> 0, out |-> "", err |-> "", msg |-> c.msg]
    ELSE IF ~Decodable(c.out)
    THEN [exc |-> "Exception", code |-> 0, out |-> "", err |-> "",
          msg |-> DecodeError(c.out)]
    ELSE IF ~Decodable(c.err)
    THEN [exc |-> "Exception", code |-> 0, out |-> "", err |-> "",
          msg |-> DecodeError(c.err)]
    ELSE [exc |-> IF c.code # 0 THEN "CalledProcessError" ELSE "none",
          code |-> c.code,
          out |-> TranslateNewlines(c.out), err |-> TranslateNewlines(c.err),
          msg |-> ""]

\* the `except subprocess.CalledProcessError` body of both handlers
FailedOutput(r) ==
    "Command failed with exit code " \o ToString(r.code) \o "\n"
        \o (IF r.out # "" THEN "STDOUT:\n" \o r.out \o "\n" ELSE "")
        \o (IF r.err # "" THEN "STDERR:\n" \o r.err ELSE "")

\* ShellOutput with the notice standing in for an empty stdout
ShellOutputNoticeForStdout(r) ==
    (IF r.out # "" THEN r.out ELSE "Command executed successfully (no output)")
        \o (IF r.err # "" THEN "STDERR:\n" \o r.err ELSE "")

\* execute_shell_command, the try body after subprocess.run returned
ShellOutput(r) ==
    LET output == (IF r.out # "" THEN r.out ELSE "")
                      \o (IF r.err # "" THEN "STDERR:\n" \o r.err ELSE "")
    IN IF output = "" THEN "Command executed successfully (no output)" ELSE output

\* execute_shell_command, from subprocess.run on: what it hands to update()
ShellTranscript(command, cmd_parts, c) ==
    LET r == TextRun(c)
    IN "$ " \o command \o "\n" \o
         (IF r.exc = "none" THEN ShellOutput(r)
          ELSE IF r.exc = "CalledProcessError" THEN FailedOutput(r)
          ELSE IF r.exc = "FileNotFoundError" THEN "Command not found: " \o cmd_parts[1]
          ELSE "Error: " \o r.msg)

\* _execute_and_display, the try body after subprocess.run returned
DisplayOutput(cmd_parts, r) ==
    LET output == (IF r.out # "" THEN r.out ELSE "")
                      \o (IF r.err # "" THEN "STDERR:\n" \o r.err ELSE "")
    IN IF output = ""
       THEN "Command " \o Join(" ", cmd_parts) \o " executed successfully (no output)"
       ELSE output

\* _execute_and_display: what it hands to update()
DisplayTranscript(cmd_parts, c) ==
    LET r == TextRun(c)
    IN "$ " \o Join(" ", cmd_parts) \o "\n" \o
         (IF r.exc = "none" THEN DisplayOutput(cmd_parts, r)
          ELSE IF r.exc = "CalledProcessError" THEN FailedOutput(r)
          ELSE IF r.exc = "FileNotFoundError" THEN "Command not found: " \o cmd_parts[1]
          ELSE "Error: " \o r.msg)

\* handlers run as background workers: the pump never waits
CanDispatchAlways == TRUE

\* a handler is a plain (blocking) method: the message pump hands over the
\* next event only when no handler is running
CanDispatch == pc = "idle"

\* the user presses a key or clicks; the event waits in the queue
user_event ==
    /\ mode = "tui"
    /\ pending < MaxPending
    /\ pending' = pending + 1
    /\ UNCHANGED <<mode, pc, requests, child, progMissing, last>>
    /\ UNCHANGED <<shellVisible, region, cur, inFlight, produced>>
    /\ UNCHANGED lineVars

\* an event leaves the queue and its handler starts
Dispatch(kind, action) ==
    /\ mode = "tui"
    /\ pending > 0
    /\ CanDispatch
    /\ pending' = pending - 1
    /\ last' = [kind |-> kind, action |-> action]
    /\ UNCHANGED mode
    /\ UNCHANGED lineVars

\* show_message(message)
show_message(kind, message) ==
    /\ Dispatch(kind, "print")
    /\ region' = Update(region, message)
    /\ produced' = message
    /\ requests' = <<>>
    /\ child' = NoChild
    /\ progMissing' = FALSE
    /\ cur' = NoCur
    /\ UNCHANGED <<pc, shellVisible, inFlight>>

\* a handler reaches its subprocess.run call
StartCommand(kind, site, command, cmd_parts) ==
    /\ Dispatch(kind, "exec")
    /\ cur' = [site |-> site, command |-> command, cmd_parts |-> cmd_parts]
    /\ requests' = <<cmd_parts>>
    /\ child' = NoChild
    /\ progMissing' = FALSE
    /\ inFlight' = inFlight + 1
    /\ pc' = "running"
    /\ UNCHANGED <<shellVisible, region, produced>>

\* show_shell_interface: hide_all_interfaces, then remove_class("hidden")
show_shell_interface ==
    /\ Dispatch("shell-btn", "show")
    /\ shellVisible' = TRUE
    /\ requests' = <<>>
    /\ child' = NoChild
    /\ progMissing' = FALSE
    /\ cur' = NoCur
    /\ UNCHANGED <<pc, region, inFlight, produced>>

\* execute_shell_command (tui), up to its subprocess.run call
tui_execute_shell_command(kind) ==
    \E value \in ShellInputs :
         LET command == Join("", Strip(value))
             cmd_parts == Split(Strip(value))
         IN IF command = ""
            THEN show_message(kind, "Please enter a shell command")
            ELSE StartCommand(kind, "shell", command, cmd_parts)

\* execute_task_command("list")
execute_task_command == StartCommand("task-list-btn", "display", "", <<"task", "list">>)

\* execute_time_command("summary")
execute_time_command == StartCommand("time-summary-btn", "display", "", <<"timew", "summary">>)

on_button_pressed(button_id) ==
    IF button_id = "shell-btn" THEN show_shell_interface
    ELSE IF button_id = "execute-btn" THEN tui_execute_shell_command(button_id)
    ELSE IF button_id = "task-list-btn" THEN execute_task_command
    ELSE IF button_id = "add-task-btn"
    THEN show_message(button_id, "Add task functionality - integrate with taskwarrior")
    ELSE IF button_id = "time-summary-btn" THEN execute_time_command
    ELSE IF button_id = "start-time-btn"
    THEN show_message(button_id, "Time start functionality - integrate with timewarrior")
    ELSE show_message(button_id, "Time stop functionality - integrate with timewarrior")

on_input_submitted == tui_execute_shell_command("shell-input")

\* the exceptions the handlers' `except subprocess.CalledProcessError`,
\* `except FileNotFoundError` and `except Exception` clauses catch
HandlerCatches(exc) == exc \in {"CalledProcessError", "FileNotFoundError", "Exception"}

\* the child of the handler in flight ends (or could not be started, or the
\* wait for it is interrupted). The handler formats the outcome, updates
\* #output-display and returns; an exception none of its except clauses
\* catches leaves the handler before update() is called
subprocess_returns ==
    /\ mode = "tui" /\ pc = "running"
    /\ \E c \in DirectOutcomes(cur.cmd_parts[1]) :
         LET transcript == IF cur.site = "shell"
                           THEN ShellTranscript(cur.command, cur.cmd_parts, c)
                           ELSE DisplayTranscript(cur.cmd_parts, c)
             exc == TextRun(c).exc
         IN /\ child' = c
            /\ progMissing' = (c.kind = "notfound")
            /\ IF exc = "none" \/ HandlerCatches(exc)
               THEN /\ region' = Update(region, transcript)
                    /\ produced' = transcript
                    /\ pc' = "idle"
               ELSE /\ pc' = "crashed"
                    /\ UNCHANGED <<region, produced>>
    /\ inFlight' = inFlight - 1
    /\ UNCHANGED <<mode, requests, shellVisible, cur, pending, last>>
    /\ UNCHANGED lineVars

\* action_clear: OutputDisplay.clear_output
action_clear ==
    /\ Dispatch("c", "clear")
    /\ region' = Update(region, "")
    /\ produced' = ""
    /\ requests' = <<>>
    /\ child' = NoChild
    /\ progMissing' = FALSE
    /\ cur' = NoCur
    /\ UNCHANGED <<pc, shellVisible, inFlight>>

\* action_focus_menu that also resets the output
action_focus_menu_clearing ==
    /\ Dispatch("escape", "hide")
    /\ shellVisible' = FALSE
    /\ region' = Update(region, "")
    /\ produced' = ""
    /\ requests' = <<>>
    /\ child' = NoChild
    /\ progMissing' = FALSE
    /\ cur' = NoCur
    /\ UNCHANGED <<pc, inFlight>>

\* action_focus_menu: hide_all_interfaces, then focus the menu
action_focus_menu ==
    /\ Dispatch("escape", "hide")
    /\ shellVisible' = FALSE
    /\ requests' = <<>>
    /\ child' = NoChild
    /\ progMissing' = FALSE
    /\ cur' = NoCur
    /\ UNCHANGED <<pc, region, inFlight, produced>>

---------------------------------------------------------------------------
(* The program *)

\* the program starts in cli.main
Init ==
    /\ mode = "boot"
    /\ pc = "main"
    /\ tty = TRUE
    /\ args = NoArgs
    /\ shell_cmd = ""
    /\ exitCode = 0
    /\ sysout = NoOutput
    /\ syserr = NoOutput
    /\ requests = <<>>
    /\ child = NoChild
    /\ progMissing = FALSE
    /\ shellVisible = FALSE
    /\ region = ""
    /\ cur = NoCur
    /\ inFlight = 0
    /\ pending = 0
    /\ last = [kind |-> "none", action |-> "none"]
    /\ produced = ""

Next ==
    \/ main
    \/ run
    \/ probe_shell
    \/ run_child
    \/ user_event
    \/ \E b \in Buttons : on_button_pressed(b)
    \/ on_input_submitted
    \/ subprocess_returns
    \/ action_clear
    \/ action_focus_menu

Spec == Init /\ [][Next]_vars

---------------------------------------------------------------------------
(* Properties *)

\* the bytes a line-mode stream received through its binary buffer
RECURSIVE BytesOf(_)
BytesOf(stream) ==
    IF stream = <<>> THEN <<>> ELSE Head(stream).bytes \o BytesOf(Tail(stream))

\* the text a line-mode stream received through print
RECURSIVE TextOf(_)
TextOf(stream) ==
    IF stream = <<>> THEN "" ELSE Head(stream).text \o TextOf(Tail(stream))

\* what main wrote to stdout before it called run
FallbackNotices ==
    {"Error importing TUI: " \o e \o "\nFalling back to CLI mode...\n" : e \in ImportErrors}

\* line mode: run has returned after the requested command's child exited
LineChildExited ==
    /\ mode = "line" /\ pc = "done"
    /\ Len(requests) = 2 /\ child.kind = "exited"

\* interactive mode: the last action was a command, and its handler has returned
TuiCommandDone == mode = "tui" /\ pc = "idle" /\ last.action = "exec"

\* the header text of the command handled last in interactive mode
TuiHeader == IF cur.site = "shell" THEN cur.command ELSE Join(" ", cur.cmd_parts)

\* C1: in line mode, when the child of `shell <words>`, `task list` or
\* `time summary` exits with a non-zero code n, run returns exactly n.
C1_ExitCodePropagated ==
    (LineChildExited /\ child.code # 0) => exitCode = child.code

\* C2: in line mode, when the program named by the first token of the
\* requested command is not installed, run prints
\* `Command not found: <programName>` and returns 1.
C2_NotFoundReported ==
    (mode = "line" /\ pc = "done" /\ progMissing) =>
        /\ exitCode = 1
        /\ syserr.w = <<Text("Command not found: " \o Route(args).cmd[1] \o "\n")>>

\* the stub actions of line mode and the message each prints
LineStubMessage ==
    IF args.command = "task" /\ args.task_action = "add"
    THEN "Task add functionality - integrate with taskwarrior"
    ELSE IF args.command = "time" /\ args.time_action = "start"
    THEN "Time start functionality - integrate with timewarrior"
    ELSE IF args.command = "time" /\ args.time_action = "stop"
    THEN "Time stop functionality - integrate with timewarrior"
    ELSE ""

\* the stub buttons of interactive mode and the message each shows
TuiStubMessage ==
    IF last.kind = "add-task-btn"
    THEN "Add task functionality - integrate with taskwarrior"
    ELSE IF last.kind = "start-time-btn"
    THEN "Time start functionality - integrate with timewarrior"
    ELSE IF last.kind = "stop-time-btn"
    THEN "Time stop functionality - integrate with timewarrior"
    ELSE ""

\* C3: `task add`, `time start` and `time stop` hand nothing to the process
\* runner, in line mode and in interactive mode, and their fixed
\* 'integrate with <backend>' message is the only output of the action (in
\* line mode it follows the notice main printed before the action ran).
C3_StubsSpawnNothing ==
    /\ (mode = "line" /\ LineStubMessage # "") =>
          /\ requests = <<>>
          /\ pc \in {"start", "done"}
          /\ pc = "done" =>
                /\ \E n \in FallbackNotices :
                      sysout = [w |-> <<Text(n \o LineStubMessage \o "\n")>>, p |-> ""]
                /\ syserr = NoOutput
    /\ (mode = "tui" /\ TuiStubMessage # "") =>
          /\ requests = <<>>
          /\ inFlight = 0
          /\ region = TuiStubMessage

C3_Witness ==
    /\ mode = "tui" /\ last.kind = "stop-time-btn" /\ shellVisible
    /\ region = "Time stop functionality - integrate with timewarrior"

\* C4: in interactive mode at most one command is in flight: no command
\* starts while an earlier one has not written its Transcript.
C4_OneInFlight ==
    mode = "tui" =>
        /\ inFlight \in {0, 1}
        /\ inFlight = 1 <=> pc = "running"

\* a second user event has arrived while a command is in flight
C4_Witness == mode = "tui" /\ inFlight = 1 /\ pending > 0

\* C5: in line mode the bytes execute_shell_command writes to standard output
\* are exactly the child's stdout and the bytes it writes to standard error
\* exactly its stderr, for every exit code, with nothing added, removed or
\* altered (the only other output is the notice main printed before run).
C5_BinaryPassThrough ==
    LineChildExited =>
        /\ BytesOf(sysout.w) = child.out
        /\ TextOf(sysout.w) \in FallbackNotices /\ sysout.p = ""
        /\ BytesOf(syserr.w) = child.err
        /\ TextOf(syserr.w) = "" /\ syserr.p = ""

\* a failing child wrote a non-text byte to stdout and a control byte to stderr
C5_Witness ==
    /\ LineChildExited /\ child.code # 0
    /\ child.out = <<255>> /\ child.err = <<13>>
    /\ ~tty /\ sysout.w[1] = Raw(<<255>>)
    /\ syserr.w = <<Raw(<<13>>)>>

\* C6 as stated: on exit code 0 the body is the child's stdout, the notice
\* when stdout is empty, with `STDERR:\n` + stderr appended when stderr is
\* non-empty.
C6_NoticeWheneverStdoutEmpty ==
    (TuiCommandDone /\ child.kind = "exited" /\ child.code = 0) =>
        LET out == TranslateNewlines(child.out)
            err == TranslateNewlines(child.err)
            notice == IF cur.site = "shell"
                      THEN "Command executed successfully (no output)"
                      ELSE "Command " \o TuiHeader \o " executed successfully (no output)"
        IN region = "$ " \o TuiHeader \o "\n"
                        \o (IF out = "" THEN notice ELSE out)
                        \o (IF err # "" THEN "STDERR:\n" \o err ELSE "")

\* C6 amended: on exit code 0, when both streams decode as text, the body is
\* the decoded stdout followed, when stderr is non-empty, by `STDERR:\n` and
\* the decoded stderr; the notice is the body only when both are empty. The
\* same at both call sites, the notice naming the command at the
\* task-list/time-summary site.
C6_NoticeOnlyWhenNoOutput ==
    (/\ TuiCommandDone /\ child.kind = "exited" /\ child.code = 0
     /\ Decodable(child.out) /\ Decodable(child.err)) =>
        LET out == TranslateNewlines(child.out)
            err == TranslateNewlines(child.err)
            notice == IF cur.site = "shell"
                      THEN "Command executed successfully (no output)"
                      ELSE "Command " \o TuiHeader \o " executed successfully (no output)"
        IN region = "$ " \o TuiHeader \o "\n"
                        \o (IF out = "" /\ err = ""
                            THEN notice
                            ELSE out \o (IF err # "" THEN "STDERR:\n" \o err ELSE ""))

\* a shell command succeeded with an empty stdout and a non-empty stderr
C6_Witness ==
    /\ TuiCommandDone /\ cur.site = "shell"
    /\ child.kind = "exited" /\ child.code = 0
    /\ child.out = <<>> /\ child.err = <<65>>
    /\ region = "$ " \o cur.command \o "\nSTDERR:\nA"

\* C7: no failure kind (process error, not found, unexpected failure, user
\* interrupt) escapes. Line mode: run always returns, 130 after a user
\* interrupt and 1 after any other exception that reaches it. Interactive
\* mode: no exception leaves a command handler, and every command execution
\* ends with its Transcript in the output region.
C7_FailuresHandled ==
    /\ mode = "line" =>
          /\ pc \in {"start", "probe", "exec", "done"}
          /\ (pc = "done" /\ child.kind = "interrupt") => exitCode = 130
          /\ (pc = "done" /\ child.kind = "oserror") => exitCode = 1
    /\ mode = "tui" => pc \in {"idle", "running"}
    /\ TuiCommandDone =>
          /\ inFlight = 0
          /\ child.kind = "notfound" =>
                region = "$ " \o TuiHeader \o "\nCommand not found: " \o cur.cmd_parts[1]
          /\ child.kind = "oserror" =>
                region = "$ " \o TuiHeader \o "\nError: " \o child.msg
          /\ (child.kind = "exited" /\ ~Decodable(child.out)) =>
                region = "$ " \o TuiHeader \o "\nError: " \o DecodeError(child.out)
          /\ (/\ child.kind = "exited" /\ child.code # 0
              /\ Decodable(child.out) /\ Decodable(child.err)) =>
                region = "$ " \o TuiHeader \o "\nCommand failed with exit code "
                           \o ToString(child.code) \o "\n"
                           \o (IF child.out # <<>>
                               THEN "STDOUT:\n" \o TranslateNewlines(child.out) \o "\n"
                               ELSE "")
                           \o (IF child.err # <<>>
                               THEN "STDERR:\n" \o TranslateNewlines(child.err)
                               ELSE "")

\* C8: the free-form shell action hands the runner the shell-wrapped request
\* [shellPath, "-c", <tokens joined by single spaces>], in line mode and in
\* interactive mode.
C8_ShellWrapped ==
    /\ (mode = "line" /\ args.command = "shell" /\ Len(requests) = 2) =>
          /\ shell_cmd \in {"fish", "bash"}
          /\ requests[2] = <<shell_cmd, "-c", Join(" ", args.cmd)>>
    /\ (mode = "tui" /\ cur.site = "shell" /\ requests # <<>>) =>
          \E sh \in {"fish", "bash"} :
              requests[Len(requests)] = <<sh, "-c", Join(" ", cur.cmd_parts)>>

\* C9: in interactive mode the output region holds exactly what the most
\* recent content-producing action made, and nothing after a clear.
C9_OnlyLatest ==
    mode = "tui" =>
        /\ region = produced
        /\ (last.action = "clear") => region = ""

\* a shell command has replaced what the region held
C9_Witness ==
    /\ TuiCommandDone /\ cur.site = "shell" /\ child.kind = "exited"
    /\ region = "$ ls  x\nA"

C10_Step ==
    mode = "tui" =>
        /\ (pending' < pending /\ last'.action \in {"exec", "print", "clear"}) =>
              shellVisible' = shellVisible
        /\ (inFlight' < inFlight) => shellVisible' = shellVisible
        /\ (pending' < pending /\ last'.action \in {"show", "hide"}) =>
              /\ region' = region
              /\ inFlight' = inFlight
              /\ pc' = pc
              /\ requests' = <<>>

\* C10: shell-input visibility is orthogonal to the execution cycle: running
\* a command, showing a stub message or clearing leaves it as it was, and
\* showing or hiding the shell input leaves the Transcript as it was and
\* starts no command.
C10_VisibilityOrthogonal == [][C10_Step]_vars

\* the shell input was hidden while a Transcript was on display
C10_Witness ==
    /\ mode = "tui" /\ last.action = "hide" /\ ~shellVisible
    /\ region = "$ task list\nA"

====
